---- MODULE Spec2Model ----
(***************************************************************************)
(* Model of conn2res-func:                                                 *)
(*   examples/example1_sims.py  run_workflow (the sweep over ALPHAS) and   *)
(*                              run_experiment (empirical run, then the    *)
(*                              null runs on a multiprocessing pool);      *)
(*   conn2res/task.py           check_xy_dims, select_model, run_task.     *)
(*                                                                         *)
(* Sweep values are fixed-point numbers in units of 1e-4, so that          *)
(* np.round(alpha, 3) is a real conversion (to a multiple of 10 units).    *)
(***************************************************************************)
EXTENDS Integers, Sequences, FiniteSets, TLC

\* ------------------------------------------------------------------ bounds
\* number of null jobs (range(500) in the source) is drawn from 0..MaxNulls
MaxNulls == 3
\* pool size (N_PROCESS = 32 in the source) is drawn from 1..MaxWorkers
MaxWorkers == 2
\* length of ALPHAS in the ensemble (40 in the source)
MaxAlphas == 2
\* number of readout modules (distinct labels of RSN_MAPPING)
MaxModules == 2
\* longest sweep drawn when run_workflow is checked on its own
MaxSweepLen == 3
\* number of run_task calls made one after the other
MaxCalls == 3

\* ------------------------------------------------------------------ state
VARIABLES
    nNulls,      \* number of null jobs run_experiment builds
    nWorkers,    \* processes= argument of mp.Pool
    ALPHAS,      \* the sweep values, in order (units of 1e-4)
    nModules,    \* rows run_task returns per sweep value (one per module)
    pc,          \* position of the coordinator in run_experiment
    empWf,       \* the empirical run_workflow call
    wf,          \* wf[j]: the run_workflow call of null job j
    params,      \* the list of job descriptors (kwargs dicts)
    poolState,   \* "none", "open", "closed", "terminated"
    poolSize,    \* number of worker processes of the pool (0: no pool)
    worker,      \* worker[p]: the job process p is executing, or NoJob
    nSubmitted,  \* number of apply_async calls made (length of res)
    collected,   \* number of r.get() calls that returned
    got,         \* jobs whose r.get() returned or raised
    error,       \* whose exception left run_experiment (NoJob: none)
    runs,        \* runs[j]: how many times job j was started by a worker
    files,       \* the output directory: path -> [table, by]
    task,        \* one run_task call of conn2res/task.py
    defaults,    \* the default-argument dicts of regression and classification
    heap         \* the weight arrays in memory: object -> value

vars == <<nNulls, nWorkers, ALPHAS, nModules, pc, empWf, wf, params, poolState,
          poolSize, worker, nSubmitted, collected, got, error, runs, files, task,
          defaults, heap>>

ensembleVars == <<pc, wf, params, poolState, poolSize, worker, nSubmitted,
                  collected, got, error, runs>>

NoJob == -1
EmpId == -2

Jobs == 0 .. (nNulls - 1)

\* ------------------------------------------------------- names and paths
CONNECTOME == "consensus_0"
OUTPUT_DIR == "results/example1"

EmpiricalFilename(connectome) == connectome \o "_empirical"

\* the index is left out of the name
NullFilenameNoIndex(connectome, i) == connectome \o "_null"

NullFilename(connectome, i) == connectome \o "_null_" \o ToString(i)

ScoresPath(filename) == OUTPUT_DIR \o "/" \o filename \o "_scores.csv"

\* ------------------------------------------------------------ the weights
\* w = np.load(...): the base weight matrix, as loaded
BaseObj == 0

Loaded == [src |-> "loaded", rewired |-> NoJob, normalized |-> FALSE]

LoadedHeap == (BaseObj :> Loaded)

\* the array the empirical run works on, and the arrays of null job j: the
\* one in its descriptor and the one its worker process unpickles
EmpObj == 1
DescObj(j) == 2 + 2 * j
ProcObj(j) == 3 + 2 * j

\* the empirical run is handed w itself
EmpArgWNoCopy == BaseObj

\* the empirical run is handed w.copy(): a new array
EmpArgW == EmpObj

\* conn.randomize(swaps=10), in place; who tells one random rewiring from
\* another
ConnRandomize(v, who) == [v EXCEPT !.rewired = who]

\* conn.scale_and_normalize(), in place
ConnScaleAndNormalize(v) == [v EXCEPT !.normalized = TRUE]

\* esn.w before the sweep (the network's weights) and alpha * conn.w
NoScale(v) == [of |-> v, scales |-> <<>>]
ScaledBy(alpha, v) == [of |-> v, scales |-> <<alpha>>]

\* ------------------------------------------------------------ run_workflow
\* np.round(alpha, 3) on a value in units of 1e-4: the nearest multiple of
\* 10 units, a tie going to the even thousandth.
Round3(a) ==
    LET q == a \div 10
        r == a % 10
    IN  IF r < 5 THEN 10 * q
        ELSE IF r > 5 THEN 10 * (q + 1)
        ELSE IF q % 2 = 0 THEN 10 * q ELSE 10 * (q + 1)

\* the rows of the frame Readout.run_task returns for readout_modules: one
\* per module
ReadoutRows == 1 .. nModules

\* df_res of one sweep value, with df_res['alpha'] = np.round(alpha, 3) set on
\* every row
TaggedRows(alpha) == [m \in ReadoutRows |-> Round3(alpha)]

\* a call that has not started
WfNew ==
    [st |-> "new", i |-> 0, rows |-> <<>>, filename |-> "", w |-> BaseObj,
     esn_w |-> NoScale(Loaded), nsplit |-> 0, used |-> <<>>]

\* a job descriptor submitted to the pool and not yet taken by a worker
WfQueued(filename, obj) ==
    [st |-> "queued", i |-> 0, rows |-> <<>>, filename |-> filename, w |-> obj,
     esn_w |-> NoScale(Loaded), nsplit |-> 0, used |-> <<>>]

\* lines 61-85: the network conn on array obj (whose value is now v),
\* esn = EchoStateNetwork(w=conn.w), the one train_test_split, df_alpha = []
WfBegin(filename, obj, v) ==
    [st |-> "running", i |-> 0, rows |-> <<>>, filename |-> filename, w |-> obj,
     esn_w |-> NoScale(v), nsplit |-> 1, used |-> <<>>]

\* the for loop has another sweep value to evaluate
SweepPending(r) == r.st = "running" /\ r.i < Len(ALPHAS)

\* the table is written from inside the loop
SweepCompleteEarly(r) == r.st = "running" /\ r.i >= 1

\* the for loop is exhausted: control reaches pd.concat and to_csv
SweepComplete(r) == r.st = "running" /\ r.i = Len(ALPHAS)

\* the new rows are put in front of the old ones
WfStepPrepend(r) ==
    [r EXCEPT !.i = @ + 1, !.rows = TaggedRows(ALPHAS[r.i + 1]) \o @,
              !.esn_w = ScaledBy(ALPHAS[r.i + 1], heap[r.w]),
              !.used = Append(@, r.nsplit)]

\* the data are split again for every sweep value
WfStepResplit(r) ==
    [r EXCEPT !.i = @ + 1, !.rows = @ \o TaggedRows(ALPHAS[r.i + 1]),
              !.esn_w = ScaledBy(ALPHAS[r.i + 1], heap[r.w]),
              !.nsplit = @ + 1,
              !.used = Append(@, r.nsplit + 1)]

\* the scaling is applied to the weights already scaled (esn.w = alpha * esn.w)
WfStepCumulative(r) ==
    [r EXCEPT !.i = @ + 1, !.rows = @ \o TaggedRows(ALPHAS[r.i + 1]),
              !.esn_w = [of |-> r.esn_w.of,
                         scales |-> Append(r.esn_w.scales, ALPHAS[r.i + 1])],
              !.used = Append(@, r.nsplit)]

\* one iteration of the loop: esn.w = alpha * conn.w, the two simulations and
\* run_task on the split made before the loop, df_alpha.append(df_res)
WfStep(r) ==
    [r EXCEPT !.i = @ + 1, !.rows = @ \o TaggedRows(ALPHAS[r.i + 1]),
              !.esn_w = ScaledBy(ALPHAS[r.i + 1], heap[r.w]),
              !.used = Append(@, r.nsplit)]

\* an exception leaves run_workflow: the local df_alpha is lost
WfRaise(r) == [r EXCEPT !.st = "failed", !.rows = <<>>]

\* run_workflow returns after to_csv
WfReturn(r) == [r EXCEPT !.st = "ok"]

\* df_alpha.to_csv(path): the file at path is created or replaced
ToCsv(fs, r, who) ==
    LET path == ScoresPath(r.filename)
        before == IF path \in DOMAIN fs THEN fs[path].by ELSE {}
    IN  (path :> [table |-> r.rows, by |-> before \cup {who}]) @@ fs

\* the caller goes on while the call is still running
ReturnedEarly(r) == r.st \in {"running", "ok"}

\* the call has returned to its caller
Returned(r) == r.st = "ok"

\* ------------------------------------------------------ conn2res/task.py
\* An array is its shape (a sequence of axis lengths); a target also has its
\* dtype and the number of distinct values in it.
Ndim(shape) == Len(shape)

\* ndarray.squeeze(): every axis of length 1 is dropped
RECURSIVE Squeeze(_)
Squeeze(shape) ==
    IF shape = <<>> THEN <<>>
    ELSE IF Head(shape) = 1 THEN Squeeze(Tail(shape))
    ELSE <<Head(shape)>> \o Squeeze(Tail(shape))

\* a[:, np.newaxis] on a 1-D array
NewAxis(shape) == Append(shape, 1)

\* the squeeze branch also takes 2-D arrays (>= 2 in place of > 2)
check_xy_dims_squeeze2d(x_train, x_test, y_train, y_test) ==
    LET both1 == Ndim(x_train) = 1 /\ Ndim(x_test) = 1
        both3 == Ndim(x_train) >= 2 /\ Ndim(x_test) >= 2
    IN  [x_train |-> IF both1 THEN NewAxis(x_train)
                     ELSE IF both3 THEN Squeeze(x_train) ELSE x_train,
         x_test  |-> IF both1 THEN NewAxis(x_test)
                     ELSE IF both3 THEN Squeeze(x_test) ELSE x_test,
         y_train |-> Squeeze(y_train),
         y_test  |-> Squeeze(y_test)]

\* check_xy_dims(x, y): the four shapes it returns
check_xy_dims(x_train, x_test, y_train, y_test) ==
    LET both1 == Ndim(x_train) = 1 /\ Ndim(x_test) = 1
        both3 == Ndim(x_train) > 2 /\ Ndim(x_test) > 2
    IN  [x_train |-> IF both1 THEN NewAxis(x_train)
                     ELSE IF both3 THEN Squeeze(x_train) ELSE x_train,
         x_test  |-> IF both1 THEN NewAxis(x_test)
                     ELSE IF both3 THEN Squeeze(x_test) ELSE x_test,
         y_train |-> Squeeze(y_train),
         y_test  |-> Squeeze(y_test)]

\* the element types numpy calls floating and integer
FloatingDTypes == {"float16", "float32", "float64"}
IntegerDTypes == {"int8", "int32", "int64", "uint8"}
DTypes == FloatingDTypes \cup IntegerDTypes \cup {"bool", "complex128"}

\* select_model(y): the function it returns; "None" when it falls off the end
select_model(dtype, shape, nunique) ==
    IF dtype \in {"float32", "float64"}
    THEN IF Ndim(Squeeze(shape)) = 1 THEN "regression" ELSE "regression"
    ELSE IF dtype \in {"int32", "int64"}
    THEN IF Ndim(Squeeze(shape)) = 1
         THEN IF nunique = 2 THEN "classification" ELSE "classification"
         ELSE "classification"
    ELSE "None"

\* the metric names the performance module defines (METRIC of the example)
Registry == {"corrcoef"}

\* getattr(performance, metric) finds the name, whatever it is
ResolveMetricAlways(m) == TRUE

\* getattr(performance, metric) finds the name
ResolveMetric(m) == m \in Registry

\* What func(x=..., y=..., metric=m) does in run_task's loop: calling None is
\* a TypeError; regression and classification first fit the estimator, which
\* raises when it rejects the data, then score, or look the metric up.
CallFunc(func, dataOk, m) ==
    IF func = "None" THEN "TypeError"
    ELSE IF ~dataOk THEN "fit-error"
    ELSE IF m = "score" THEN "ok"
    ELSE IF ResolveMetric(m) THEN "ok"
    ELSE "AttributeError"

\* the default arguments model_kws and metric_kws: dicts made once, when the
\* functions are defined, and shared by every call (alpha in tenths)
Defaults ==
    [model_kws |-> [alpha |-> 5, fit_intercept |-> TRUE],
     regression_metric_kws |-> "multioutput=uniform_average",
     classification_metric_kws |-> ""]

\* a call changes its default dict (model_kws['alpha'] is updated in place)
DefaultsAfterFitUpdated(d) == [d EXCEPT !.model_kws.alpha = @ + 1]

\* Ridge(**model_kws) and func(..., **metric_kws) unpack the dicts: a call
\* leaves them as they were
DefaultsAfterFit(d) == d

\* the value func returns for metric m: decided by the strategy, the metric,
\* the data and the keyword dicts in force
MetricValue(func, m, t) ==
    [func |-> func, metric |-> m,
     x_train |-> t.x_train, x_test |-> t.x_test,
     y_train |-> t.y_train, y_test |-> t.y_test,
     dtype |-> t.dtype, nunique |-> t.nunique,
     model_kws |-> defaults.model_kws,
     metric_kws |-> IF m = "score" THEN "unused"
                    ELSE IF func = "regression" THEN defaults.regression_metric_kws
                    ELSE defaults.classification_metric_kws]

\* metrics[m] = value on a dict: a new key goes last, an old key keeps its
\* place and takes the new value
DictSet(d, m, v) ==
    IF \E n \in 1 .. Len(d) : d[n].name = m
    THEN [n \in 1 .. Len(d) |-> IF d[n].name = m THEN [name |-> m, value |-> v] ELSE d[n]]
    ELSE Append(d, [name |-> m, value |-> v])

\* the keys of a dict
Keys(d) == {d[n].name : n \in 1 .. Len(d)}

\* no earlier call to compare with
NoPrev == [valid |-> FALSE, pc |-> "none", metrics |-> <<>>, err |-> "none"]

\* run_task(reservoir_states, target, metric) at its first line; dataOk says
\* whether the estimator accepts the data
TaskCall(x_train, x_test, y_train, y_test, dtype, nunique, metric, dataOk) ==
    [pc |-> "start", x_train |-> x_train, x_test |-> x_test,
     y_train |-> y_train, y_test |-> y_test, dtype |-> dtype,
     nunique |-> nunique, metric |-> metric, dataOk |-> dataOk,
     args |-> [x_train |-> x_train, x_test |-> x_test, y_train |-> y_train,
               y_test |-> y_test, metric |-> metric],
     func |-> "unset", k |-> 0, metrics |-> <<>>, model |-> "unbound",
     err |-> "none", calls |-> 1, prev |-> NoPrev]

\* no run_task call is in progress
TaskIdle ==
    [TaskCall(<<1>>, <<1>>, <<1>>, <<1>>, "float64", 2,
              [isStr |-> TRUE, names |-> <<"score">>], TRUE) EXCEPT !.pc = "idle"]

XShapes == {<<4>>, <<4, 1>>, <<4, 2>>, <<4, 2, 1>>, <<4, 1, 1>>}
YShapes == {<<4>>, <<4, 1>>, <<4, 2>>}
MetricArgs ==
    {[isStr |-> TRUE, names |-> <<"score">>]}
    \cup {[isStr |-> FALSE, names |-> ns] :
            ns \in {<<>>, <<"score">>, <<"corrcoef">>, <<"score", "corrcoef">>,
                    <<"score", "not_a_real_metric">>}}

\* x_train, x_test, y_train, y_test = check_xy_dims(x=reservoir_states, y=target)
TaskCheckDims ==
    /\ task.pc = "start"
    /\ LET d == check_xy_dims(task.x_train, task.x_test, task.y_train, task.y_test)
       IN  task' = [task EXCEPT !.pc = "checked", !.x_train = d.x_train,
                                !.x_test = d.x_test, !.y_train = d.y_train,
                                !.y_test = d.y_test]
    /\ UNCHANGED <<defaults, heap, nNulls, nWorkers, ALPHAS, nModules, empWf, files>>
    /\ UNCHANGED ensembleVars

\* func = select_model(y=y_train); a str metric becomes a 1-tuple; metrics = dict()
TaskSelect ==
    /\ task.pc = "checked"
    /\ task' = [task EXCEPT !.pc = "loop",
                            !.func = select_model(task.dtype, task.y_train, task.nunique),
                            !.metric = [isStr |-> FALSE, names |-> task.metric.names]]
    /\ UNCHANGED <<defaults, heap, nNulls, nWorkers, ALPHAS, nModules, empWf, files>>
    /\ UNCHANGED ensembleVars

\* one iteration of "for m in metric" that completes: the model is fitted and
\* the metric computed
TaskMetric ==
    /\ task.pc = "loop"
    /\ task.k < Len(task.metric.names)
    /\ LET m == task.metric.names[task.k + 1] IN
        /\ CallFunc(task.func, task.dataOk, m) = "ok"
        /\ task' = [task EXCEPT !.k = @ + 1,
                                !.metrics = DictSet(@, m, MetricValue(task.func, m, task)),
                                !.model = "fitted"]
    /\ defaults' = DefaultsAfterFit(defaults)
    /\ UNCHANGED <<heap, nNulls, nWorkers, ALPHAS, nModules, empWf, files>>
    /\ UNCHANGED ensembleVars

\* one iteration that raises: func is None (TypeError), the estimator rejects
\* the data (fit-error), or getattr(performance, m) fails (AttributeError);
\* nothing is assigned to metrics[m] or to model
TaskMetricRaise ==
    /\ task.pc = "loop"
    /\ task.k < Len(task.metric.names)
    /\ LET m == task.metric.names[task.k + 1]
           out == CallFunc(task.func, task.dataOk, m)
       IN  /\ out # "ok"
           /\ task' = [task EXCEPT !.pc = "raised", !.err = out]
           /\ defaults' = IF out = "AttributeError" THEN DefaultsAfterFit(defaults)
                          ELSE defaults
    /\ UNCHANGED <<heap, nNulls, nWorkers, ALPHAS, nModules, empWf, files>>
    /\ UNCHANGED ensembleVars

\* df_res = pd.DataFrame(data=metrics, index=[0]); return df_res, model
TaskReturn ==
    /\ task.pc = "loop"
    /\ task.k = Len(task.metric.names)
    /\ task' = IF task.model = "unbound"
               THEN [task EXCEPT !.pc = "raised", !.err = "UnboundLocalError"]
               ELSE [task EXCEPT !.pc = "returned"]
    /\ UNCHANGED <<defaults, heap, nNulls, nWorkers, ALPHAS, nModules, empWf, files>>
    /\ UNCHANGED ensembleVars

\* ------------------------------------------------- run_experiment: start
Init ==
    /\ nNulls \in 0 .. MaxNulls
    /\ nWorkers \in 1 .. MaxWorkers
    /\ ALPHAS = [i \in 1 .. MaxAlphas |-> 500 * i]
    /\ nModules \in 1 .. MaxModules
    /\ pc = "start"
    /\ empWf = WfNew
    /\ wf = [j \in Jobs |-> WfNew]
    /\ params = <<>>
    /\ poolState = "none"
    /\ poolSize = 0
    /\ worker = <<>>
    /\ nSubmitted = 0
    /\ collected = 0
    /\ got = {}
    /\ error = NoJob
    /\ runs = [j \in Jobs |-> 0]
    /\ files = <<>>
    /\ task = TaskIdle
    /\ defaults = Defaults
    /\ heap = LoadedHeap

\* the empirical run: run_workflow(w.copy(), x, y, rewire=False, ...)
EmpStart ==
    /\ pc = "start"
    /\ LET v == ConnScaleAndNormalize(heap[BaseObj]) IN
        /\ heap' = (EmpArgW :> v) @@ heap
        /\ empWf' = WfBegin(EmpiricalFilename(CONNECTOME), EmpArgW, v)
    /\ pc' = "empirical"
    /\ UNCHANGED <<defaults, task, nNulls, nWorkers, ALPHAS, nModules, wf, params, poolState,
                   poolSize, worker, nSubmitted, collected, got, error, runs, files>>

EmpStep ==
    /\ pc = "empirical"
    /\ SweepPending(empWf)
    /\ empWf' = WfStep(empWf)
    /\ UNCHANGED <<defaults, heap, task, nNulls, nWorkers, ALPHAS, nModules, files>>
    /\ UNCHANGED ensembleVars

\* the exception propagates out of run_experiment: nothing catches it
EmpRaise ==
    /\ pc = "empirical"
    /\ empWf.st = "running"
    /\ empWf' = WfRaise(empWf)
    /\ pc' = "failed"
    /\ error' = EmpId
    /\ UNCHANGED <<defaults, heap, task, nNulls, nWorkers, ALPHAS, nModules, wf, params, poolState,
                   poolSize, worker, nSubmitted, collected, got, runs, files>>

EmpPersist ==
    /\ pc = "empirical"
    /\ SweepComplete(empWf)
    /\ files' = ToCsv(files, empWf, EmpId)
    /\ empWf' = WfReturn(empWf)
    /\ UNCHANGED <<defaults, heap, task, nNulls, nWorkers, ALPHAS, nModules>>
    /\ UNCHANGED ensembleVars

\* params = [{'w': w.copy(), ..., 'filename': f'{connectome}_null_{i}'} ...]
BuildParams ==
    /\ pc = "empirical"
    /\ Returned(empWf)
    /\ params' = [n \in 1 .. nNulls |->
                     [w |-> DescObj(n - 1), filename |-> NullFilename(CONNECTOME, n - 1)]]
    /\ heap' = [o \in {DescObj(j) : j \in Jobs} |-> heap[BaseObj]] @@ heap
    /\ pc' = "pool"
    /\ UNCHANGED <<defaults, task, nNulls, nWorkers, ALPHAS, nModules, empWf, wf, poolState,
                   poolSize, worker, nSubmitted, collected, got, error, runs, files>>

\* pool = mp.Pool(processes=N_PROCESS)
CreatePool ==
    /\ pc = "pool"
    /\ poolState' = "open"
    /\ poolSize' = nWorkers
    /\ worker' = [p \in 1 .. nWorkers |-> NoJob]
    /\ pc' = IF nNulls = 0 THEN "collect" ELSE "submit"
    /\ UNCHANGED <<defaults, heap, task, nNulls, nWorkers, ALPHAS, nModules, empWf, wf, params,
                   nSubmitted, collected, got, error, runs, files>>

\* one pool.apply_async(run_workflow, (), p) of the list comprehension: it
\* queues the job and returns at once
Submit ==
    /\ pc = "submit"
    /\ nSubmitted < Len(params)
    /\ wf' = [wf EXCEPT ![nSubmitted] = WfQueued(params[nSubmitted + 1].filename, params[nSubmitted + 1].w)]
    /\ nSubmitted' = nSubmitted + 1
    /\ pc' = IF nSubmitted + 1 = Len(params) THEN "collect" ELSE "submit"
    /\ UNCHANGED <<defaults, heap, task, nNulls, nWorkers, ALPHAS, nModules, empWf, params, poolState,
                   poolSize, worker, collected, got, error, runs, files>>

\* --------------------------------------------- run_experiment: collection
\* the results are collected last first
NextToCollectReversed == nSubmitted - 1 - collected

\* for r in res: the result the loop is at
NextToCollect == collected

\* the result is read without waiting for the job
ReadyNoWait(j) == TRUE

\* the wait gives up on a job that does not end (a timeout)
ReadyOrTimedOut(j) == wf[j].st \in {"ok", "failed", "hung"}

\* r.get() blocks until the job has finished
Ready(j) == wf[j].st \in {"ok", "failed"}

\* the job's exception is dropped (r.wait() in place of r.get())
GetOutcomeSwallow(j) == "ok"

\* r.get() returns the job's value, or re-raises the exception it raised
GetOutcome(j) == wf[j].st

CollectOk ==
    /\ pc = "collect"
    /\ collected < nSubmitted
    /\ LET j == NextToCollect IN
        /\ Ready(j)
        /\ GetOutcome(j) # "failed"
        /\ got' = got \cup {j}
    /\ collected' = collected + 1
    /\ UNCHANGED <<defaults, heap, task, nNulls, nWorkers, ALPHAS, nModules, pc, empWf, wf, params,
                   poolState, poolSize, worker, nSubmitted, error, runs, files>>

\* r.get() re-raises: the exception leaves the loop and run_experiment
CollectRaise ==
    /\ pc = "collect"
    /\ collected < nSubmitted
    /\ LET j == NextToCollect IN
        /\ Ready(j)
        /\ GetOutcome(j) = "failed"
        /\ got' = got \cup {j}
        /\ error' = j
    /\ pc' = "failed"
    /\ UNCHANGED <<defaults, heap, task, nNulls, nWorkers, ALPHAS, nModules, empWf, wf, params,
                   poolState, poolSize, worker, nSubmitted, collected, runs, files>>

\* the loop over res is exhausted: pool.close(), and run_experiment returns
ClosePool ==
    /\ pc = "collect"
    /\ collected = nSubmitted
    /\ poolState' = "closed"
    /\ pc' = "done"
    /\ UNCHANGED <<defaults, heap, task, nNulls, nWorkers, ALPHAS, nModules, empWf, wf, params,
                   poolSize, worker, nSubmitted, collected, got, error, runs, files>>

\* The exception is caught nowhere (run_experiment, main, the module's last
\* line): the process ends, and with it the pool's daemonic workers. Queued
\* jobs are dropped and running ones are killed. Until then the workers go on.
ProcessExit ==
    /\ pc = "failed"
    /\ pc' = "exited"
    /\ poolState' = IF poolState = "open" THEN "terminated" ELSE poolState
    /\ worker' = [p \in DOMAIN worker |-> NoJob]
    /\ wf' = [j \in Jobs |-> IF wf[j].st \in {"running", "hung"}
                             THEN [wf[j] EXCEPT !.st = "killed", !.rows = <<>>]
                             ELSE wf[j]]
    /\ UNCHANGED <<defaults, heap, task, nNulls, nWorkers, ALPHAS, nModules, empWf, params, poolSize,
                   nSubmitted, collected, got, error, runs, files>>

\* ------------------------------------------------------- the pool's workers
\* the worker process is between tasks
Idle(p) == worker[p] = NoJob

\* a failed job goes back to the queue
QueuedOrFailed(j) == j < nSubmitted /\ wf[j].st \in {"queued", "failed"}

\* the job sits in the pool's task queue
Queued(j) == j < nSubmitted /\ wf[j].st = "queued"

\* the task queue is first in, first out
QueueHead == CHOOSE j \in Jobs : Queued(j) /\ \A i \in Jobs : Queued(i) => j <= i

\* a worker takes the next task while it is still running one
TakeWhileBusy(p) ==
    /\ poolState = "open"
    /\ \E j \in Jobs : Queued(j)
    /\ LET j == QueueHead IN
        /\ worker' = [worker EXCEPT ![p] = j]
        /\ LET v == ConnScaleAndNormalize(ConnRandomize(heap[wf[j].w], j)) IN
            /\ heap' = (ProcObj(j) :> v) @@ heap
            /\ wf' = [wf EXCEPT ![j] = WfBegin(wf[j].filename, ProcObj(j), v)]
        /\ runs' = [runs EXCEPT ![j] = @ + 1]
    /\ UNCHANGED <<defaults, task, nNulls, nWorkers, ALPHAS, nModules, pc, empWf, params,
                   poolState, poolSize, nSubmitted, collected, got, error, files>>

\* a worker takes the next task, unpickles its arguments into its own memory
\* and calls run_workflow(**p), rewire=True
Take(p) ==
    /\ poolState = "open"
    /\ Idle(p)
    /\ \E j \in Jobs : Queued(j)
    /\ LET j == QueueHead IN
        /\ worker' = [worker EXCEPT ![p] = j]
        /\ LET v == ConnScaleAndNormalize(ConnRandomize(heap[wf[j].w], j)) IN
            /\ heap' = (ProcObj(j) :> v) @@ heap
            /\ wf' = [wf EXCEPT ![j] = WfBegin(wf[j].filename, ProcObj(j), v)]
        /\ runs' = [runs EXCEPT ![j] = @ + 1]
    /\ UNCHANGED <<defaults, task, nNulls, nWorkers, ALPHAS, nModules, pc, empWf, params,
                   poolState, poolSize, nSubmitted, collected, got, error, files>>

JobStep(p) ==
    /\ poolState = "open"
    /\ ~Idle(p)
    /\ SweepPending(wf[worker[p]])
    /\ wf' = [wf EXCEPT ![worker[p]] = WfStep(@)]
    /\ UNCHANGED <<defaults, heap, task, nNulls, nWorkers, ALPHAS, nModules, pc, empWf, params,
                   poolState, poolSize, worker, nSubmitted, collected, got,
                   error, runs, files>>

\* run_workflow raises in the worker: the pool stores the exception as the
\* job's result and the worker is free again
JobRaise(p) ==
    /\ poolState = "open"
    /\ ~Idle(p)
    /\ wf[worker[p]].st = "running"
    /\ wf' = [wf EXCEPT ![worker[p]] = WfRaise(@)]
    /\ worker' = [worker EXCEPT ![p] = NoJob]
    /\ UNCHANGED <<defaults, heap, task, nNulls, nWorkers, ALPHAS, nModules, pc, empWf, params,
                   poolState, poolSize, nSubmitted, collected, got, error,
                   runs, files>>

\* the sweep is over: the table is written, run_workflow returns, the worker
\* is free again
JobPersist(p) ==
    /\ poolState = "open"
    /\ ~Idle(p)
    /\ SweepComplete(wf[worker[p]])
    /\ files' = ToCsv(files, wf[worker[p]], worker[p])
    /\ wf' = [wf EXCEPT ![worker[p]] = WfReturn(@)]
    /\ worker' = [worker EXCEPT ![p] = NoJob]
    /\ UNCHANGED <<defaults, heap, task, nNulls, nWorkers, ALPHAS, nModules, pc, empWf, params,
                   poolState, poolSize, nSubmitted, collected, got, error, runs>>

Next ==
    \/ EmpStart
    \/ EmpStep
    \/ EmpRaise
    \/ EmpPersist
    \/ BuildParams
    \/ CreatePool
    \/ Submit
    \/ CollectOk
    \/ CollectRaise
    \/ ClosePool
    \/ ProcessExit
    \/ \E p \in DOMAIN worker : Take(p)
    \/ \E p \in DOMAIN worker : JobStep(p)
    \/ \E p \in DOMAIN worker : JobRaise(p)
    \/ \E p \in DOMAIN worker : JobPersist(p)

Spec == Init /\ [][Next]_vars

\* ------------------------------------------ the ensemble with jobs that hang
\* run_workflow never returns in the worker (an endless simulation, a
\* deadlock): the job stays unfinished and its worker busy
JobHang(p) ==
    /\ poolState = "open"
    /\ ~Idle(p)
    /\ wf[worker[p]].st = "running"
    /\ wf' = [wf EXCEPT ![worker[p]].st = "hung"]
    /\ UNCHANGED <<defaults, heap, task, nNulls, nWorkers, ALPHAS, nModules, pc, empWf,
                   params, poolState, poolSize, worker, nSubmitted, collected,
                   got, error, runs, files>>

LiveNext ==
    \/ Next
    \/ \E p \in DOMAIN worker : JobHang(p)

\* the steps the coordinating process takes when it is scheduled
Coordinator ==
    \/ EmpStart
    \/ EmpStep
    \/ EmpPersist
    \/ BuildParams
    \/ CreatePool
    \/ Submit
    \/ CollectOk
    \/ CollectRaise
    \/ ClosePool
    \/ ProcessExit

\* the steps worker process p takes when it is scheduled
WorkerProgress(p) ==
    /\ p \in DOMAIN worker
    /\ (Take(p) \/ JobStep(p) \/ JobPersist(p))

\* every process is an operating-system process of its own: each one that
\* can take a step eventually takes it
LiveSpec ==
    /\ Init
    /\ [][LiveNext]_vars
    /\ WF_vars(Coordinator)
    /\ \A p \in 1 .. MaxWorkers : WF_vars(WorkerProgress(p))

\* --------------------------------------------- run_workflow on its own
\* sweep values a caller may pass, in units of 1e-4: thousandths, values with
\* a fourth decimal, a tie
SweepValues == {0, 500, 1000, 1504, 25}

RECURSIVE SeqsUpTo(_, _)
SeqsUpTo(S, n) ==
    IF n = 0 THEN {<<>>}
    ELSE LET shorter == SeqsUpTo(S, n - 1)
         IN  shorter \cup {Append(q, v) : q \in {t \in shorter : Len(t) = n - 1}, v \in S}

\* one run_workflow call, for any sweep and any number of modules
SweepInit ==
    /\ nNulls = 0
    /\ nWorkers = 1
    /\ ALPHAS \in SeqsUpTo(SweepValues, MaxSweepLen)
    /\ nModules \in 1 .. MaxModules
    /\ pc = "start"
    /\ empWf = WfNew
    /\ wf = <<>>
    /\ params = <<>>
    /\ poolState = "none"
    /\ poolSize = 0
    /\ worker = <<>>
    /\ nSubmitted = 0
    /\ collected = 0
    /\ got = {}
    /\ error = NoJob
    /\ runs = <<>>
    /\ files = <<>>
    /\ task = TaskIdle
    /\ defaults = Defaults
    /\ heap = LoadedHeap

SweepNext ==
    \/ EmpStart
    \/ EmpStep
    \/ EmpRaise
    \/ EmpPersist

SweepSpec == SweepInit /\ [][SweepNext]_vars

\* ------------------------------------------------- run_task on its own
TaskInit ==
    /\ nNulls = 0
    /\ nWorkers = 1
    /\ ALPHAS = <<>>
    /\ nModules = 1
    /\ pc = "idle"
    /\ empWf = WfNew
    /\ wf = <<>>
    /\ params = <<>>
    /\ poolState = "none"
    /\ poolSize = 0
    /\ worker = <<>>
    /\ nSubmitted = 0
    /\ collected = 0
    /\ got = {}
    /\ error = NoJob
    /\ runs = <<>>
    /\ files = <<>>
    /\ defaults = Defaults
    /\ heap = LoadedHeap
    /\ \E xtr \in XShapes, xte \in XShapes, ysh \in YShapes, dt \in DTypes,
          nu \in {2, 3}, met \in MetricArgs, ok \in BOOLEAN :
          task = TaskCall(xtr, xte, ysh, ysh, dt, nu, met, ok)

TaskNext ==
    \/ TaskCheckDims
    \/ TaskSelect
    \/ TaskMetric
    \/ TaskMetricRaise
    \/ TaskReturn

TaskSpec == TaskInit /\ [][TaskNext]_vars

\* ------------------------------------- run_task called again and again
\* The call has ended; run_task is called once more on the same arrays, with
\* the same or with other metric names. Its locals are new; the module's
\* state (the default dicts) is what the earlier calls left. prev keeps the
\* outcome of the call before when the arguments are identical.
TaskAgain ==
    /\ task.pc \in {"returned", "raised"}
    /\ task.calls < MaxCalls
    /\ \E met \in MetricArgs :
          task' = [TaskCall(task.args.x_train, task.args.x_test, task.args.y_train,
                            task.args.y_test, task.dtype, task.nunique, met,
                            task.dataOk)
                   EXCEPT !.calls = task.calls + 1,
                          !.prev = IF met = task.args.metric
                                   THEN [valid |-> TRUE, pc |-> task.pc,
                                         metrics |-> task.metrics, err |-> task.err]
                                   ELSE NoPrev]
    /\ UNCHANGED <<defaults, heap, nNulls, nWorkers, ALPHAS, nModules, empWf, files>>
    /\ UNCHANGED ensembleVars

TaskSeqInit ==
    /\ nNulls = 0
    /\ nWorkers = 1
    /\ ALPHAS = <<>>
    /\ nModules = 1
    /\ pc = "idle"
    /\ empWf = WfNew
    /\ wf = <<>>
    /\ params = <<>>
    /\ poolState = "none"
    /\ poolSize = 0
    /\ worker = <<>>
    /\ nSubmitted = 0
    /\ collected = 0
    /\ got = {}
    /\ error = NoJob
    /\ runs = <<>>
    /\ files = <<>>
    /\ defaults = Defaults
    /\ heap = LoadedHeap
    /\ \E ysh \in YShapes, dt \in {"float64", "int64", "bool"},
          met \in MetricArgs, ok \in BOOLEAN :
          task = TaskCall(<<4, 2>>, <<4, 2>>, ysh, ysh, dt, 2, met, ok)

TaskSeqNext ==
    \/ TaskCheckDims
    \/ TaskSelect
    \/ TaskMetric
    \/ TaskMetricRaise
    \/ TaskReturn
    \/ TaskAgain

TaskSeqSpec == TaskSeqInit /\ [][TaskSeqNext]_vars

\* ------------------------------------------------------------- properties
Running == {j \in Jobs : wf[j].st = "running"}

Finished(j) == wf[j].st \in {"ok", "failed"}

\* C1: the identifiers issued to the empirical run and to the job descriptors
\* are pairwise distinct, no output path is ever written by two runs, and when
\* run_experiment completes (every job succeeded) the output directory holds
\* exactly nNulls + 1 tables.
C1_DistinctArtifacts ==
    /\ \A a, b \in 1 .. Len(params) :
          a # b => params[a].filename # params[b].filename
    /\ \A a \in 1 .. Len(params) : params[a].filename # "consensus_0_empirical"
    /\ \A path \in DOMAIN files : Cardinality(files[path].by) = 1
    /\ pc = "done" => Cardinality(DOMAIN files) = nNulls + 1

C1_Witness == pc = "done" /\ nNulls >= 2 /\ nWorkers >= 2

\* C2: join barrier: the coordinator is past the collection loop (pool closed,
\* run_experiment done) only when every null job was submitted, has finished
\* and has had its outcome collected; and an outcome is collected only from a
\* finished job.
C2_JoinBarrier ==
    /\ (pc = "done" \/ poolState = "closed") =>
          /\ nSubmitted = nNulls
          /\ \A j \in Jobs : wf[j].st \in {"ok", "failed"} /\ j \in got
    /\ \A j \in got : wf[j].st \in {"ok", "failed"}

C2_Witness == pc = "done" /\ poolState = "closed" /\ nNulls >= 2

\* C3: a null job that raised never leaves the ensemble completed: the
\* coordinator is never done while a job has failed, and collecting a failed
\* job's outcome re-raises that job's error in the coordinator.
C3_FailureSurfaces ==
    /\ pc = "done" => \A j \in Jobs : wf[j].st = "ok"
    /\ \A j \in got : wf[j].st = "failed" => pc \in {"failed", "exited"} /\ error = j

C3_Witness ==
    /\ pc = "failed"
    /\ nNulls >= 2
    /\ \E j \in got : wf[j].st = "failed" /\ error = j

\* C4 as claimed: failure of a null job is reported only once the outcomes of
\* all submitted jobs have been collected.
C4_CollectAllThenFail ==
    (pc \in {"failed", "exited"} /\ error \in Jobs) =>
        \A j \in Jobs : j < nSubmitted => j \in got

\* C4 as amended: failure is reported when the collection loop, going through
\* the jobs in submission order, reaches the first failed job: the outcomes
\* collected are exactly those of that job and of the jobs submitted before
\* it, which all succeeded; later jobs are not collected.
C4_FailAtFirstFailed ==
    (pc \in {"failed", "exited"} /\ error \in Jobs) =>
        /\ got = 0 .. error
        /\ wf[error].st = "failed"
        /\ \A j \in 0 .. (error - 1) : wf[j].st = "ok"

C4_Witness ==
    /\ pc = "failed"
    /\ error \in Jobs
    /\ \E j \in Jobs : j > error /\ j \notin got /\ wf[j].st \in {"queued", "running"}

\* C5: at most nWorkers jobs are executing, the pool keeps the size it was
\* created with, and a worker holds one job until that job's run_workflow has
\* ended: every executing job is held by exactly one worker and every busy
\* worker holds an executing job.
C5_BoundedPool ==
    /\ poolState # "none" => poolSize = nWorkers /\ DOMAIN worker = 1 .. nWorkers
    /\ Cardinality(Running) <= nWorkers
    /\ \A j \in Running : Cardinality({p \in DOMAIN worker : worker[p] = j}) = 1
    /\ \A p \in DOMAIN worker : worker[p] # NoJob => worker[p] \in Running

C5_Witness ==
    /\ nWorkers = 2
    /\ Cardinality(Running) = 2
    /\ \E j \in Jobs : wf[j].st = "queued"
    /\ \E j \in Running : wf[j].i >= 1

\* C6 as claimed: when run_experiment has ended, every job descriptor it built
\* has been executed exactly once.
C6_ExactlyOnce ==
    pc \in {"done", "exited"} => \A n \in 1 .. Len(params) : runs[n - 1] = 1

\* C6 as amended: no descriptor is executed more than once or by two workers,
\* a failed job is not run again, and when run_experiment completes every
\* descriptor was executed exactly once; a descriptor still queued when a
\* job's error ends run_experiment is never executed.
C6_AtMostOnce ==
    /\ \A j \in Jobs :
          /\ runs[j] <= 1
          /\ runs[j] = 1 <=> wf[j].st \in {"running", "ok", "failed", "killed"}
          /\ Cardinality({p \in DOMAIN worker : worker[p] = j}) <= 1
    /\ pc = "done" => \A j \in Jobs : runs[j] = 1
    /\ pc = "exited" => \A j \in Jobs : wf[j].st \notin {"running"}

C6_Witness ==
    /\ pc = "exited"
    /\ \E j \in Jobs : wf[j].st = "failed" /\ runs[j] = 1
    /\ \E j \in Jobs : wf[j].st = "queued" /\ runs[j] = 0

\* C7: the empirical run (identifier consensus_0_empirical) is executed by the
\* coordinator before anything else: while it is in progress there is no
\* pool, no descriptor and no null job, and once the pool exists the
\* empirical run has returned and its table is written.
C7_EmpiricalFirst ==
    /\ empWf.st = "running" =>
          /\ poolState = "none"
          /\ params = <<>>
          /\ \A j \in Jobs : wf[j].st = "new"
    /\ poolState # "none" =>
          /\ empWf.st = "ok"
          /\ empWf.filename = "consensus_0_empirical"
          /\ "results/example1/consensus_0_empirical_scores.csv" \in DOMAIN files

C7_Witness == poolState = "open" /\ empWf.st = "ok" /\ Running # {}

\* the table run_workflow wrote for the empirical run
EmpTable == files[ScoresPath(empWf.filename)].table

\* the sweep value row n of the table belongs to
SweepValueOfRow(n) == ALPHAS[((n - 1) \div nModules) + 1]

\* C8 as claimed: the table has len(sweep_values) * module count rows, and its
\* sweep-value column equals the sweep values, in order.
C8_ColumnIsSweep ==
    empWf.st = "ok" =>
        /\ Len(EmpTable) = Len(ALPHAS) * nModules
        /\ \A n \in 1 .. Len(EmpTable) : EmpTable[n] = SweepValueOfRow(n)

\* C8 as amended: the table has len(sweep_values) * module count rows, and
\* its sweep-value column holds, in the given order and without
\* deduplication, each sweep value rounded to three decimals (the nearest
\* thousandth, a tie to the even one), once per module.
C8_ColumnIsRoundedSweep ==
    empWf.st = "ok" =>
        /\ Len(EmpTable) = Len(ALPHAS) * nModules
        /\ \A n \in 1 .. Len(EmpTable) :
              LET d == EmpTable[n] - SweepValueOfRow(n)
                  dist == IF d < 0 THEN 0 - d ELSE d
              IN  /\ EmpTable[n] % 10 = 0
                  /\ dist <= 5
                  /\ dist = 5 => (EmpTable[n] \div 10) % 2 = 0

C8_Witness ==
    /\ empWf.st = "ok"
    /\ ALPHAS = <<1504, 500, 500>>
    /\ nModules = 2
    /\ EmpTable = <<1500, 1500, 500, 500, 500, 500>>

\* C9: a table is written only by a run_workflow call that evaluated every
\* sweep value: every file holds a full table, and a call that raised (or has
\* not finished) has no file, whatever it had computed before.
C9_NoPartialTable ==
    /\ \A path \in DOMAIN files : Len(files[path].table) = Len(ALPHAS) * nModules
    /\ \A j \in Jobs :
          wf[j].st # "ok" => ScoresPath(wf[j].filename) \notin DOMAIN files
    /\ empWf.st # "ok" => ScoresPath(empWf.filename) \notin DOMAIN files

C9_Witness ==
    \E j \in Jobs :
        /\ wf[j].st = "failed"
        /\ wf[j].i >= 1
        /\ ScoresPath(wf[j].filename) \notin DOMAIN files

\* C10 as claimed: select_model returns regression for every floating target
\* and classification for every integer target.
C10_SelectByKind ==
    task.func # "unset" =>
        /\ task.dtype \in FloatingDTypes => task.func = "regression"
        /\ task.dtype \in IntegerDTypes => task.func = "classification"

\* the target's element type is neither floating nor integer
OtherDType == task.dtype \notin (FloatingDTypes \cup IntegerDTypes)

\* C11 as claimed: for a target that is neither floating nor integer,
\* selection fails: select_model hands no value to run_task, which ends at
\* strategy selection with an unsupported-target-type error.
C11_UnsupportedTypeAborts ==
    (OtherDType /\ task.pc \notin {"idle", "start", "checked"}) =>
        /\ task.pc = "raised"
        /\ task.err = "unsupported-target-type"
        /\ task.func = "unset"

\* the names requested hold one that is neither 'score' nor registered
HasUnknown(names) ==
    \E n \in 1 .. Len(names) : names[n] # "score" /\ names[n] \notin Registry

\* C12: a run_task call whose metric names hold an unknown name never returns
\* a row; when the strategy was selected and the estimator accepts the data,
\* it ends with the lookup error of the first unknown name (AttributeError
\* from getattr), the metrics computed before it being dropped with the row.
C12_UnknownMetricAborts ==
    (task.pc # "idle" /\ HasUnknown(task.args.metric.names)) =>
        /\ task.pc # "returned"
        /\ (task.pc = "raised" /\ task.func # "None" /\ task.dataOk) =>
              /\ task.err = "AttributeError"
              /\ ~HasUnknown(SubSeq(task.metric.names, 1, task.k))
              /\ HasUnknown(SubSeq(task.metric.names, 1, task.k + 1))
              /\ Len(task.metrics) = task.k

C12_Witness ==
    /\ task.pc = "raised"
    /\ task.err = "AttributeError"
    /\ task.args.metric.names = <<"score", "not_a_real_metric">>
    /\ Keys(task.metrics) = {"score"}

\* C13 as claimed: check_xy_dims never returns train and test state arrays of
\* different dimensionality (it fails instead).
C13_SymmetricDims ==
    task.pc \in {"checked", "loop", "returned", "raised"} =>
        Ndim(task.x_train) = Ndim(task.x_test)

\* C14: for 2-D train and test state arrays, check_xy_dims applied to its own
\* output returns that output: the same state and target shapes as after one
\* application.
C14_Idempotent ==
    (/\ task.pc \notin {"idle", "start"}
     /\ Ndim(task.args.x_train) = 2
     /\ Ndim(task.args.x_test) = 2) =>
        check_xy_dims(task.x_train, task.x_test, task.y_train, task.y_test)
            = [x_train |-> task.x_train, x_test |-> task.x_test,
               y_train |-> task.y_train, y_test |-> task.y_test]

C14_Witness ==
    /\ task.pc = "checked"
    /\ task.args.x_train = <<4, 1>>
    /\ task.args.x_test = <<4, 1>>
    /\ task.x_train = <<4, 1>>
    /\ task.args.y_train = <<4, 1>>
    /\ task.y_train = <<4>>

\* every requested computation succeeds: a strategy was selected, the
\* estimator accepts the data and every name is 'score' or registered
AllSucceed ==
    /\ task.func \in {"regression", "classification"}
    /\ task.dataOk
    /\ ~HasUnknown(task.args.metric.names)

\* C17 as claimed: when every requested computation succeeds, run_task returns
\* a row whose keys are exactly the requested names (a string, or any tuple,
\* the empty one included) and a fitted estimator.
C17_RowOfRequested ==
    (task.pc \in {"returned", "raised"} /\ AllSucceed) =>
        /\ task.pc = "returned"
        /\ Keys(task.metrics) =
              {task.args.metric.names[n] : n \in 1 .. Len(task.args.metric.names)}
        /\ task.model = "fitted"

\* C16: a run_task call made with the arguments of the call before it (same
\* arrays, same metric names, the default estimator and keyword dicts) ends
\* the way that call ended, and when it returns its row is identical, whatever
\* calls were made earlier.
C16_Deterministic ==
    (task.prev.valid /\ task.pc \in {"returned", "raised"}) =>
        /\ task.pc = task.prev.pc
        /\ task.err = task.prev.err
        /\ task.metrics = task.prev.metrics

C16_Witness ==
    /\ task.calls = 3
    /\ task.prev.valid
    /\ task.pc = "returned"
    /\ Keys(task.metrics) = {"score", "corrcoef"}

\* the value of the base weights once scaled and normalized, not rewired
NormalizedBase == [src |-> "loaded", rewired |-> -1, normalized |-> TRUE]

\* the null jobs that a worker has started
Started == {j \in Jobs : wf[j].st \in {"running", "ok", "failed", "killed"}}

\* C15: the base weight matrix and the copy in every job descriptor stay as
\* loaded, whatever the runs do; the empirical run and every started null job
\* work on arrays of their own, different from the base array and from each
\* other's, and each holds only the changes of its own run.
C15_OwnWeights ==
    /\ heap[BaseObj] = [src |-> "loaded", rewired |-> -1, normalized |-> FALSE]
    /\ \A n \in 1 .. Len(params) :
          /\ params[n].w # BaseObj
          /\ heap[params[n].w] = heap[BaseObj]
          /\ \A m \in 1 .. Len(params) : m # n => params[m].w # params[n].w
    /\ empWf.st # "new" =>
          /\ empWf.w # BaseObj
          /\ heap[empWf.w] = NormalizedBase
    /\ \A j \in Started :
          /\ wf[j].w \notin {BaseObj, empWf.w}
          /\ \A n \in 1 .. Len(params) : wf[j].w # params[n].w
          /\ \A i \in Started : i # j => wf[i].w # wf[j].w
          /\ heap[wf[j].w] = [src |-> "loaded", rewired |-> j, normalized |-> TRUE]

C15_Witness ==
    \E i, j \in Started :
        /\ i # j
        /\ wf[i].st = "running" /\ wf[i].i >= 1
        /\ wf[j].st = "running" /\ wf[j].i >= 1

\* the run_workflow calls that have begun
BegunCalls ==
    (IF empWf.st # "new" THEN {empWf} ELSE {}) \cup {wf[j] : j \in Started}

\* C18: in every run_workflow call train_test_split has been called exactly
\* once, before the first sweep value, and every sweep value evaluated so far
\* used that split.
C18_SplitOnce ==
    \A r \in BegunCalls :
        /\ r.nsplit = 1
        /\ Len(r.used) = r.i
        /\ \A n \in 1 .. Len(r.used) : r.used[n] = 1

C18_Witness ==
    \E j \in Jobs : wf[j].st = "ok" /\ wf[j].used = <<1, 1>> /\ empWf.used = <<1, 1>>

\* no run has failed, hung or been killed
NoFailure ==
    /\ empWf.st # "failed"
    /\ \A j \in Jobs : wf[j].st \notin {"failed", "hung", "killed"}

\* C19: with every process scheduled fairly, run_experiment completes unless
\* some run fails or hangs; and from the moment a submitted job hangs,
\* run_experiment is never completed.
C19_CompletesUnlessHung ==
    /\ <>(pc = "done" \/ ~NoFailure)
    /\ [](\A j \in Jobs : wf[j].st = "hung" => pc # "done")

C19_Witness ==
    /\ nNulls >= 2
    /\ pc = "collect"
    /\ \E j \in Jobs :
          /\ wf[j].st = "hung"
          /\ collected = j
          /\ \A i \in Jobs : i # j => wf[i].st = "ok"

\* C20: after the step for sweep value v, the simulator's weights are v times
\* the network's normalized weights, one scaling and no more, and those
\* normalized weights are what they were when the sweep began.
C20_ScalingNotCumulative ==
    (empWf.st \in {"running", "ok"} /\ empWf.i >= 1) =>
        /\ empWf.esn_w = [of |-> NormalizedBase, scales |-> <<ALPHAS[empWf.i]>>]
        /\ heap[empWf.w] = NormalizedBase

C20_Witness ==
    /\ ALPHAS = <<1000, 500, 500>>
    /\ empWf.st = "ok"
    /\ empWf.esn_w.scales = <<500>>

====
